---- MODULE Spec2Model ----
(***************************************************************************)
(* Model of the hardware abstraction layer of smart_gemini.                *)
(*                                                                         *)
(*   src/hw_layer_chatgpt.py  the lgpio variant: one module-level chip     *)
(*                            handle (gpio_handle), init_gpio with one     *)
(*                            recovery attempt, cleanup_gpio registered    *)
(*                            with atexit, polling adapters.               *)
(*   src/hw_layer.py          the gpiozero variant: device objects that    *)
(*                            are None when absent, the filtered distance  *)
(*                            measurement and the colour labelling.        *)
(*                                                                         *)
(* The lgpio library is outside the repository.  It is modelled by its     *)
(* contract: gpiochip_open and gpio_claim_* fail when the environment says *)
(* so ("GPIO busy"), gpio_read / gpio_write fail when the environment says *)
(* so or when the handle is not open, and gpiochip_close fails exactly     *)
(* when the handle it is given is not open (a bad handle).                 *)
(*                                                                         *)
(* Python exceptions are modelled by the field exc of the working state:   *)
(* a library call with exc set is skipped (the try block was left), and    *)
(* an except clause clears it.                                             *)
(***************************************************************************)
EXTENDS Integers, Sequences, FiniteSets, TLC

VARIABLES
    gpio_handle,   \* hw_layer_chatgpt.py: the module global (None or a handle)
    chip,          \* lgpio: [open: set of open handles, claims: set of
                   \*         <<handle, pin, direction>>, next: next fresh handle]
    hist,          \* history: [closes: handle -> number of gpiochip_close
                   \*           calls issued on it, stale: kinds of lgpio calls
                   \*           that were issued on a handle that is not open]
    pc,            \* position inside a polling adapter, "idle" between calls
    elapsed,       \* measure_distance: stop_time - start_time, in ticks
    last,          \* the call in progress or last returned, and its outcome
    mainpc,        \* "lib": called by an importing program; otherwise the
                   \*  next statement of the __main__ block
    dev,           \* hw_layer.py: the module globals (device objects)
    hwpc           \* hw_layer.py: "start" before the import, then "ready"
                   \*  or "import_error"

vars == <<gpio_handle, chip, hist, pc, elapsed, last, mainpc, dev, hwpc>>

(***************************************************************************)
(* Bounds of the model.                                                    *)
(***************************************************************************)
MaxHandles == 4     \* handles the chip hands out before the model stops opening
MaxSamples == 3     \* longest list of raw samples given to measure_distance
MaxElapsed == 401   \* elapsed echo time saturates here (past the envelope)

(***************************************************************************)
(* Program constants.                                                      *)
(***************************************************************************)
TRIG == 23
ECHO == 24
BUZZER == 18
BUTTON == 17
None == -1          \* Python's None, where a handle or a number is expected
SPEED_OF_SOUND == 34300   \* cm/s, hw_layer_chatgpt.py line 124
\* Clock resolution of the model: one tick of round trip is one centimetre.
TicksPerSecond == SPEED_OF_SOUND \div 2

Handles == 0 .. (MaxHandles - 1)
PinPlan == {<<TRIG, "out">>, <<ECHO, "in">>, <<BUZZER, "out">>, <<BUTTON, "in">>}

(***************************************************************************)
(* Values returned to the caller, as records of one shape.                 *)
(***************************************************************************)
Ret(kind, v, w, s) == [kind |-> kind, v |-> v, w |-> w, s |-> s]
PyNone == Ret("None", 0, 0, "")
PyBool(b) == Ret("bool", IF b THEN 1 ELSE 0, 0, "")
PyNum(x) == Ret("number", x, 0, "")
PyPair(a, b) == Ret("pair", a, b, "")
PyStr(s) == Ret("str", 0, 0, s)
Pending == Ret("pending", 0, 0, "")

(***************************************************************************)
(* The working state of one handler call: the module global, the chip,     *)
(* the history, and what the call did so far.                              *)
(***************************************************************************)
Cur ==
    [gpio_handle |-> gpio_handle,
     open |-> chip.open, claims |-> chip.claims, next |-> chip.next,
     closes |-> hist.closes, stale |-> hist.stale,
     exc |-> FALSE,        \* an exception is propagating
     rv |-> 0,             \* value returned by the last library call
     opens |-> 0,          \* gpiochip_open calls of this handler call
     cleanups |-> 0,       \* cleanup_gpio calls of this handler call
     io |-> FALSE,         \* a gpio_read or gpio_write was issued
     unclaimed |-> FALSE]  \* ... on a line not claimed in that direction

Commit(S) ==
    /\ gpio_handle' = S.gpio_handle
    /\ chip' = [open |-> S.open, claims |-> S.claims, next |-> S.next]
    /\ hist' = [closes |-> S.closes, stale |-> S.stale]

(***************************************************************************)
(* lgpio, by its contract.                                                 *)
(***************************************************************************)
Raise(S) == [S EXCEPT !.exc = TRUE]

\* An except clause that handles the exception.
Catch(S) == [S EXCEPT !.exc = FALSE]

Stale(S, kind) == [S EXCEPT !.exc = TRUE, !.stale = @ \cup {kind}]

gpiochip_open(S, ok) ==
    IF S.exc THEN S
    ELSE LET S1 == [S EXCEPT !.opens = @ + 1]
         IN  IF ok
             THEN [S1 EXCEPT !.open = @ \cup {S.next}, !.next = @ + 1,
                             !.rv = S.next]
             ELSE Raise(S1)

gpiochip_close(S, h) ==
    IF S.exc THEN S
    ELSE LET S1 == [S EXCEPT !.closes[h] = @ + 1]
         IN  IF h \in S.open
             THEN [S1 EXCEPT !.open = @ \ {h},
                             !.claims = {c \in @ : c[1] # h}]
             ELSE Stale(S1, "close")

gpio_claim(S, h, pin, dir, ok) ==
    IF S.exc THEN S
    ELSE IF h \notin S.open THEN Stale(S, "claim")
    ELSE IF ok THEN [S EXCEPT !.claims = @ \cup {<<h, pin, dir>>}]
    ELSE Raise(S)

gpio_claim_output(S, h, pin, ok) == gpio_claim(S, h, pin, "out", ok)

gpio_claim_input(S, h, pin, ok) == gpio_claim(S, h, pin, "in", ok)

gpio_write(S, h, pin, ok) ==
    IF S.exc THEN S
    ELSE LET S1 == [S EXCEPT !.io = TRUE,
                             !.unclaimed = @ \/ <<h, pin, "out">> \notin S.claims]
         IN  IF h \notin S.open THEN Stale(S1, "write")
             ELSE IF ok THEN S1 ELSE Raise(S1)

gpio_read(S, h, pin, ok, level) ==
    IF S.exc THEN S
    ELSE LET S1 == [S EXCEPT !.io = TRUE,
                             !.unclaimed = @ \/ <<h, pin, "in">> \notin S.claims]
         IN  IF h \notin S.open THEN Stale(S1, "read")
             ELSE IF ok THEN [S1 EXCEPT !.rv = level] ELSE Raise(S1)

(***************************************************************************)
(* hw_layer_chatgpt.py: cleanup_gpio and init_gpio.                        *)
(***************************************************************************)
\* Variants of cleanup_gpio with a plausible slip: the global is not reset
\* after the close; the global is reset without closing the handle.
cleanup_gpio_NoReset(S) ==
    LET S1 == [S EXCEPT !.cleanups = @ + 1]
    IN  IF S1.gpio_handle # None
        THEN Catch(gpiochip_close(S1, S1.gpio_handle))
        ELSE S1

cleanup_gpio_NoClose(S) ==
    [S EXCEPT !.cleanups = @ + 1, !.gpio_handle = None]

cleanup_gpio(S) ==
    LET S1 == [S EXCEPT !.cleanups = @ + 1]
    IN  IF S1.gpio_handle # None
        THEN LET T == gpiochip_close(S1, S1.gpio_handle)
             IN  IF T.exc
                 THEN [T EXCEPT !.exc = FALSE]           \* except: warn only
                 ELSE [T EXCEPT !.gpio_handle = None]
        ELSE S1

\* gpio_handle = lgpio.gpiochip_open(0): the assignment happens only when
\* the call returned.
OpenAndAssign(S, ok) ==
    LET T == gpiochip_open(S, ok)
    IN  IF T.exc \/ S.exc THEN T ELSE [T EXCEPT !.gpio_handle = T.rv]

FailAts == {"none", "open", "TRIG", "ECHO", "BUZZER", "BUTTON"}

\* The try block, lines 61-71.  failAt names the call the environment fails.
FirstAttempt(S, failAt) ==
    LET S0 == IF S.gpio_handle # None
              THEN gpiochip_close(S, S.gpio_handle) ELSE S
        S1 == OpenAndAssign(S0, failAt # "open")
        S2 == gpio_claim_output(S1, S1.gpio_handle, TRIG, failAt # "TRIG")
        S3 == gpio_claim_input(S2, S2.gpio_handle, ECHO, failAt # "ECHO")
        S4 == gpio_claim_output(S3, S3.gpio_handle, BUZZER, failAt # "BUZZER")
    IN  gpio_claim_input(S4, S4.gpio_handle, BUTTON, failAt # "BUTTON")

\* Variant of the inner try that does not reset the global when the retry
\* fails.
RetryOpen_KeepHandle(S, retryOk) == Catch(OpenAndAssign(S, retryOk))

\* The inner try, lines 76-81.
RetryOpen(S, retryOk) ==
    LET T == OpenAndAssign(S, retryOk)
    IN  IF T.exc THEN [T EXCEPT !.exc = FALSE, !.gpio_handle = None] ELSE T

init_gpio(S, failAt, retryOk) ==
    LET A == FirstAttempt(S, failAt)
    IN  IF A.exc
        THEN RetryOpen(cleanup_gpio([A EXCEPT !.exc = FALSE]), retryOk)
        ELSE A

(***************************************************************************)
(* The record of a call.                                                   *)
(***************************************************************************)
NoCall ==
    [op |-> "none", ret |-> Pending, raised |-> FALSE,
     hadHandle |-> FALSE,   \* gpio_handle was not None when the call began
     failed |-> FALSE,      \* init_gpio: the first attempt failed
     retryOk |-> FALSE,     \* init_gpio: the environment let the retry open
     opens |-> 0, cleanups |-> 0, io |-> FALSE, unclaimed |-> FALSE,
     arg |-> <<>>,          \* the input the environment or the caller gave
     prev |-> "none",       \* the call before this one
     tick |-> 0]            \* low bit of the number of polls the call made:
                            \* time passes with every poll

Call(op, S0) ==
    [NoCall EXCEPT !.op = op, !.hadHandle = (S0.gpio_handle # None),
                   !.prev = last.op]

Done(rec, S, ret) ==
    [rec EXCEPT !.ret = ret, !.raised = S.exc, !.opens = S.opens,
                !.cleanups = S.cleanups, !.io = @ \/ S.io,
                !.unclaimed = @ \/ S.unclaimed]

\* The caller: an importing program calls in any order (mainpc = "lib");
\* the __main__ block calls in program order.
From(cur, nxt) == pc = "idle" /\ mainpc = cur /\ mainpc' = nxt

InitGpio(cur, nxt) ==
    /\ From(cur, nxt)
    /\ chip.next + 1 \in Handles
    /\ \E failAt \in FailAts, retryOk \in BOOLEAN :
          LET S == init_gpio(Cur, failAt, retryOk)
              A == FirstAttempt(Cur, failAt)
          IN  /\ Commit(S)
              /\ last' = [Done(Call("init_gpio", Cur), S, PyNone)
                            EXCEPT !.failed = A.exc, !.retryOk = retryOk]
    /\ UNCHANGED <<pc, elapsed, dev, hwpc>>

CleanupGpio(cur, nxt) ==
    /\ From(cur, nxt)
    /\ LET S == cleanup_gpio(Cur)
       IN  /\ Commit(S)
           /\ last' = Done(Call("cleanup_gpio", Cur), S, PyNone)
    /\ UNCHANGED <<pc, elapsed, dev, hwpc>>

(***************************************************************************)
(* hw_layer_chatgpt.py: measure_distance.  The call is split at its two    *)
(* polling loops; each poll is one step, and the environment chooses the   *)
(* level of the echo line, whether the read fails, and how much time       *)
(* passed.                                                                 *)
(***************************************************************************)
\* Ticks the environment lets pass between two readings of the clock: from
\* the last start_time to the stop_time of line 119, and per poll while the
\* echo line is high.  Their sums reach 2, 3, 399, 400 and beyond.
RiseDT == {0, 2, 3}
FallDT == {0, 199, 397}

Min(a, b) == IF a < b THEN a ELSE b

\* distance = (time_elapsed * 34300) / 2, in centimetres
Distance(t) == (t * SPEED_OF_SOUND) \div (2 * TicksPerSecond)

\* Lines 126-128: the envelope test and the value returned.
DistanceResult(d) == IF d <= 2 \/ d >= 400 THEN PyNone ELSE PyNum(d)

\* Variant of measure_distance_begin without the guard of lines 105-107.
measure_distance_begin_NoGuard(S, ok1, ok2) ==
    LET T == gpio_write(gpio_write(S, S.gpio_handle, TRIG, ok1),
                        S.gpio_handle, TRIG, ok2)
    IN  IF T.exc
        THEN [st |-> Catch(T), pc |-> "idle", ret |-> PyNone]
        ELSE [st |-> T, pc |-> "echo_rise", ret |-> Pending]

\* Lines 105-113: the guard and the trigger pulse.  Gives the state, the
\* position reached, and the value returned when the call ends here.
measure_distance_begin(S, ok1, ok2) ==
    IF S.gpio_handle = None
    THEN [st |-> S, pc |-> "idle", ret |-> PyNone]
    ELSE LET T == gpio_write(gpio_write(S, S.gpio_handle, TRIG, ok1),
                             S.gpio_handle, TRIG, ok2)
         IN  IF T.exc
             THEN [st |-> Catch(T), pc |-> "idle", ret |-> PyNone]
             ELSE [st |-> T, pc |-> "echo_rise", ret |-> Pending]

\* Lines 115-119: one poll of "while gpio_read(ECHO) == 0".
echo_rise_poll(S, ok, level, dt) ==
    LET T == gpio_read(S, S.gpio_handle, ECHO, ok, level)
    IN  IF T.exc
        THEN [st |-> Catch(T), pc |-> "idle", ret |-> PyNone, elapsed |-> 0]
        ELSE IF T.rv = 0
        THEN [st |-> T, pc |-> "echo_rise", ret |-> Pending, elapsed |-> 0]
        ELSE [st |-> T, pc |-> "echo_fall", ret |-> Pending, elapsed |-> dt]

\* Lines 120-128: one poll of "while gpio_read(ECHO) == 1".
echo_fall_poll(S, el, ok, level, dt) ==
    LET T == gpio_read(S, S.gpio_handle, ECHO, ok, level)
    IN  IF T.exc
        THEN [st |-> Catch(T), pc |-> "idle", ret |-> PyNone, elapsed |-> el]
        ELSE IF T.rv = 1
        THEN [st |-> T, pc |-> "echo_fall", ret |-> Pending,
              elapsed |-> Min(el + dt, MaxElapsed)]
        ELSE [st |-> T, pc |-> "idle",
              ret |-> DistanceResult(Distance(el)), elapsed |-> el]

MeasureDistance(cur, nxt) ==
    /\ From(cur, nxt)
    /\ \E ok1 \in BOOLEAN, ok2 \in BOOLEAN :
          LET r == measure_distance_begin(Cur, ok1, ok2)
          IN  /\ Commit(r.st)
              /\ pc' = r.pc
              /\ last' = Done(Call("measure_distance", Cur), r.st, r.ret)
    /\ elapsed' = 0
    /\ UNCHANGED <<dev, hwpc>>

EchoRisePoll ==
    /\ pc = "echo_rise"
    /\ \E ok \in BOOLEAN, level \in {0, 1}, dt \in RiseDT :
          LET r == echo_rise_poll(Cur, ok, level, dt)
          IN  /\ Commit(r.st)
              /\ pc' = r.pc
              /\ elapsed' = r.elapsed
              /\ last' = [Done(last, r.st, r.ret) EXCEPT !.tick = 1 - @]
    /\ UNCHANGED <<mainpc, dev, hwpc>>

EchoFallPoll ==
    /\ pc = "echo_fall"
    /\ \E ok \in BOOLEAN, level \in {0, 1}, dt \in FallDT :
          LET r == echo_fall_poll(Cur, elapsed, ok, level, dt)
          IN  /\ Commit(r.st)
              /\ pc' = r.pc
              /\ elapsed' = r.elapsed
              /\ last' = [Done(last, r.st, r.ret) EXCEPT !.tick = 1 - @]
    /\ UNCHANGED <<mainpc, dev, hwpc>>

(***************************************************************************)
(* hw_layer_chatgpt.py: wait_for_button_press and beep.                    *)
(***************************************************************************)
wait_for_button_press_begin(S) ==
    IF S.gpio_handle = None
    THEN [st |-> S, pc |-> "idle", ret |-> PyBool(FALSE)]
    ELSE [st |-> S, pc |-> "button_poll", ret |-> Pending]

\* Lines 146-152: one poll of "while gpio_read(BUTTON) == 1".
button_poll(S, ok, level) ==
    LET T == gpio_read(S, S.gpio_handle, BUTTON, ok, level)
    IN  IF T.exc
        THEN [st |-> Catch(T), pc |-> "idle", ret |-> PyBool(FALSE)]
        ELSE IF T.rv = 1
        THEN [st |-> T, pc |-> "button_poll", ret |-> Pending]
        ELSE [st |-> T, pc |-> "idle", ret |-> PyBool(TRUE)]

beep(S, ok1, ok2) ==
    IF S.gpio_handle = None
    THEN S
    ELSE Catch(gpio_write(gpio_write(S, S.gpio_handle, BUZZER, ok1),
                          S.gpio_handle, BUZZER, ok2))

WaitForButtonPress(cur, nxt) ==
    /\ From(cur, nxt)
    /\ LET r == wait_for_button_press_begin(Cur)
       IN  /\ Commit(r.st)
           /\ pc' = r.pc
           /\ last' = Done(Call("wait_for_button_press", Cur), r.st, r.ret)
    /\ UNCHANGED <<elapsed, dev, hwpc>>

ButtonPoll ==
    /\ pc = "button_poll"
    /\ \E ok \in BOOLEAN, level \in {0, 1} :
          LET r == button_poll(Cur, ok, level)
          IN  /\ Commit(r.st)
              /\ pc' = r.pc
              /\ last' = [Done(last, r.st, r.ret) EXCEPT !.tick = 1 - @]
    /\ UNCHANGED <<elapsed, mainpc, dev, hwpc>>

Beep(cur, nxt) ==
    /\ From(cur, nxt)
    /\ \E ok1 \in BOOLEAN, ok2 \in BOOLEAN :
          LET S == beep(Cur, ok1, ok2)
          IN  /\ Commit(S)
              /\ last' = Done(Call("beep", Cur), S, PyNone)
    /\ UNCHANGED <<pc, elapsed, dev, hwpc>>

(***************************************************************************)
(* hw_layer_chatgpt.py: the I2C sensors and the display.  The devices are  *)
(* outside the repository: the environment says whether a device call      *)
(* fails and what it reads.                                                *)
(***************************************************************************)
\* Readings of the MLX90614 in hundredths of a degree (its resolution is
\* 0.02 K, so round(x, 2) keeps them).
Temps == {2150, 3648}

read_temperature(ok, amb, obj) ==
    IF ok THEN PyPair(amb, obj) ELSE Ret("pair_of_None", 0, 0, "")

read_color(ok) == IF ok THEN Ret("dict", 0, 0, "") ELSE PyNone

\* disp = init_oled(): None without the library or when the device fails.
init_oled(libOk, initOk) == libOk /\ initOk

\* oled_display_message(disp, lines): what happened to the frame.
oled_display_message(disp, drawOk) ==
    IF ~disp THEN "skipped" ELSE IF drawOk THEN "drawn" ELSE "draw_failed"

ReadTemperature(cur, nxt) ==
    /\ From(cur, nxt)
    /\ \E ok \in BOOLEAN, amb \in Temps, obj \in Temps :
          last' = [Call("read_temperature", Cur)
                     EXCEPT !.ret = read_temperature(ok, amb, obj)]
    /\ UNCHANGED <<gpio_handle, chip, hist, pc, elapsed, dev, hwpc>>

ReadColor(cur, nxt) ==
    /\ From(cur, nxt)
    /\ \E ok \in BOOLEAN :
          last' = [Call("read_color", Cur) EXCEPT !.ret = read_color(ok)]
    /\ UNCHANGED <<gpio_handle, chip, hist, pc, elapsed, dev, hwpc>>

OledMessage(cur, nxt) ==
    /\ From(cur, nxt)
    /\ \E libOk \in BOOLEAN, initOk \in BOOLEAN, drawOk \in BOOLEAN :
          last' = [Call("oled_display_message", Cur)
                     EXCEPT !.ret = PyNone,
                            !.arg = <<oled_display_message(
                                        init_oled(libOk, initOk), drawOk)>>]
    /\ UNCHANGED <<gpio_handle, chip, hist, pc, elapsed, dev, hwpc>>

(***************************************************************************)
(* hw_layer_chatgpt.py run as a program: the import runs init_gpio (line   *)
(* 256), the __main__ block runs the adapters in order inside a try, a     *)
(* KeyboardInterrupt raised anywhere inside that try is caught and runs    *)
(* cleanup_gpio, and the atexit hook runs cleanup_gpio when the            *)
(* interpreter exits.                                                      *)
(***************************************************************************)
TryLines == {"L264", "L265", "L268", "L271", "L274", "L281"}

KeyboardInterrupt ==
    /\ mainpc \in TryLines
    /\ LET S == cleanup_gpio(Cur)
       IN  /\ Commit(S)
           /\ last' = Done(Call("KeyboardInterrupt", Cur), S, PyNone)
    /\ pc' = "idle"
    /\ mainpc' = "exit"
    /\ UNCHANGED <<elapsed, dev, hwpc>>

AtExit ==
    /\ mainpc = "exit"
    /\ pc = "idle"
    /\ LET S == cleanup_gpio(Cur)
       IN  /\ Commit(S)
           /\ last' = Done(Call("atexit", Cur), S, PyNone)
    /\ mainpc' = "terminated"
    /\ UNCHANGED <<pc, elapsed, dev, hwpc>>

(***************************************************************************)
(* hw_layer.py: arithmetic.  Lengths are integers in centimetres, results  *)
(* of round(x, 2) are integers in hundredths.                              *)
(***************************************************************************)
\* round(): num/den to the nearest integer, ties to the even one.
RoundHalfEven(num, den) ==
    LET q == num \div den
        r == num % den
    IN  IF 2 * r < den THEN q
        ELSE IF 2 * r > den THEN q + 1
        ELSE IF q % 2 = 0 THEN q ELSE q + 1

RECURSIVE SumSeq(_)
SumSeq(s) == IF s = <<>> THEN 0 ELSE Head(s) + SumSeq(Tail(s))

RECURSIVE SumSqSeq(_)
SumSqSeq(s) == IF s = <<>> THEN 0 ELSE Head(s) * Head(s) + SumSqSeq(Tail(s))

\* One step of the digit-by-digit square root: root p, remainder r, and the
\* next two decimal digits dd of the radicand.
SqrtStep(p, r, dd) ==
    LET r2 == r * 100 + dd
        d == CHOOSE x \in 0 .. 9 :
                /\ (20 * p + x) * x <= r2
                /\ (x = 9 \/ (20 * p + x + 1) * (x + 1) > r2)
    IN  <<10 * p + d, r2 - (20 * p + d) * d>>

\* floor(1000 * sqrt(a / b)), for b > 0 and 0 <= a / b < 10^6: three steps
\* for the integer part of a / b, three for its first six decimals.
SqrtMilli(a, b) ==
    LET i == a \div b
        i1 == SqrtStep(0, 0, i \div 10000)
        i2 == SqrtStep(i1[1], i1[2], (i \div 100) % 100)
        i3 == SqrtStep(i2[1], i2[2], i % 100)
        f0 == a % b
        s1 == SqrtStep(i3[1], i3[2], (f0 * 100) \div b)
        f1 == (f0 * 100) % b
        s2 == SqrtStep(s1[1], s1[2], (f1 * 100) \div b)
        f2 == (f1 * 100) % b
        s3 == SqrtStep(s2[1], s2[2], (f2 * 100) \div b)
    IN  s3[1]

\* round(statistics.mean(v), 2), in hundredths.
MeanCenti(v) == RoundHalfEven(100 * SumSeq(v), Len(v))

\* round(statistics.stdev(v), 2), in hundredths: the sample standard
\* deviation sqrt((n * sum(x^2) - sum(x)^2) / (n * (n - 1))).
StdevCenti(v) ==
    LET n == Len(v)
        a == n * SumSqSeq(v) - SumSeq(v) * SumSeq(v)
    IN  (SqrtMilli(a, n * (n - 1)) + 5) \div 10

(***************************************************************************)
(* hw_layer.py: the import (lines 17-58) and the adapters.  A device       *)
(* object is TRUE when it was created and FALSE when it is None.  An       *)
(* adapter gives [ret, raised, io]: the value returned, whether an         *)
(* exception left the function, whether a device call was issued.          *)
(***************************************************************************)
\* Device.pin_factory: "none", "open" or "closed".
cleanup_gpio_pins(f, closeOk) ==
    IF f # "none" /\ closeOk THEN "closed" ELSE f

\* Lines 25-58.  The constructors of lines 40 and 41 are outside any try:
\* when one raises the import fails.
hw_import(d, closeOk, i2cOk, mlxOk, tcsOk, oledOk, gpioOk) ==
    LET d1 == [d EXCEPT !.pin_factory = cleanup_gpio_pins(@, closeOk),
                        !.i2c_bus = i2cOk]
    IN  IF i2cOk /\ ~mlxOk THEN [dev |-> d1, pc |-> "import_error"]
        ELSE IF i2cOk /\ ~tcsOk
        THEN [dev |-> [d1 EXCEPT !.mlx_sensor = TRUE], pc |-> "import_error"]
        ELSE [dev |-> [d1 EXCEPT !.mlx_sensor = i2cOk, !.tcs_sensor = i2cOk,
                                 !.oled_device = oledOk,
                                 !.distance_sensor_obj = gpioOk,
                                 !.buzzer_obj = gpioOk,
                                 !.button_obj = gpioOk,
                                 !.pin_factory =
                                     IF gpioOk /\ @ = "none"
                                     THEN "open" ELSE @],
              pc |-> "ready"]

Out(ret, raised, io) == [ret |-> ret, raised |-> raised, io |-> io]

\* Variant of get_color_name that tests Yellow before the dominant channel.
get_color_name_YellowFirst(r, g, b) ==
    IF r > 200 /\ g > 200 /\ b > 200 THEN "White"
    ELSE IF r < 30 /\ g < 30 /\ b < 30 THEN "Black"
    ELSE IF r > 100 /\ g > 100 /\ b < 50 THEN "Yellow"
    ELSE IF r > g /\ r > b THEN "Red"
    ELSE IF g > r /\ g > b THEN "Green"
    ELSE IF b > r /\ b > g THEN "Blue"
    ELSE "Unknown"

get_color_name(r, g, b) ==
    IF r > 200 /\ g > 200 /\ b > 200 THEN "White"
    ELSE IF r < 30 /\ g < 30 /\ b < 30 THEN "Black"
    ELSE IF r > g /\ r > b THEN "Red"
    ELSE IF g > r /\ g > b THEN "Green"
    ELSE IF b > r /\ b > g THEN "Blue"
    ELSE IF r > 100 /\ g > 100 /\ b < 50 THEN "Yellow"
    ELSE "Unknown"

\* outcome: "ok", "oserror" (OSError / IOError) or "other" (any other
\* exception of the driver).  amb is in hundredths of a degree, frame is the
\* sum of the 768 pixels in tenths; the results are in tenths.
hw_read_temperature(d, outcome, amb, frame) ==
    IF d.mlx_sensor
    THEN IF outcome = "ok"
         THEN Out(Ret("dict", RoundHalfEven(amb, 10),
                      RoundHalfEven(frame, 768), ""), FALSE, TRUE)
         ELSE IF outcome = "oserror"
         THEN Out(Ret("dict", 0, 0, ""), FALSE, TRUE)
         ELSE Out(Pending, TRUE, TRUE)
    ELSE Out(Ret("dict", 250, 250, ""), FALSE, FALSE)

hw_read_color(d, ok, rgb) ==
    IF d.tcs_sensor
    THEN IF ok
         THEN Out(PyStr(get_color_name(rgb[1], rgb[2], rgb[3])), FALSE, TRUE)
         ELSE Out(PyStr("Error"), FALSE, TRUE)
    ELSE Out(PyStr("N/A"), FALSE, FALSE)

buzzer_beep(d, ok) ==
    IF d.buzzer_obj
    THEN IF ok THEN Out(PyNone, FALSE, TRUE) ELSE Out(Pending, TRUE, TRUE)
    ELSE Out(PyNone, FALSE, FALSE)

read_button(d, ok, is_pressed) ==
    IF d.button_obj
    THEN IF ok THEN Out(PyBool(~is_pressed), FALSE, TRUE)
         ELSE Out(Pending, TRUE, TRUE)
    ELSE Out(PyBool(TRUE), FALSE, FALSE)

\* Variant of line 103 that keeps the two ends of the envelope.
ValidReadings_Inclusive(readings) ==
    SelectSeq(readings, LAMBDA r : 2 <= r /\ r <= 400)

\* Line 103.
ValidReadings(readings) == SelectSeq(readings, LAMBDA r : 2 < r /\ r < 400)

\* Lines 104-107.
FilteredResult(valid) ==
    IF valid = <<>> THEN PyPair(0, 0)
    ELSE PyPair(MeanCenti(valid),
                IF Len(valid) > 1 THEN StdevCenti(valid) ELSE 0)

\* readings: what distance_sensor_obj.distance * 100 gave, sample by sample.
hw_measure_distance(d, ok, readings) ==
    IF ~d.distance_sensor_obj THEN Out(PyPair(0, 0), FALSE, FALSE)
    ELSE IF ~ok THEN Out(Pending, TRUE, TRUE)
    ELSE Out(FilteredResult(ValidReadings(readings)), FALSE, readings # <<>>)

\* sigma in hundredths.
analyze_absorption(sigma) ==
    IF sigma > 120 THEN "High" ELSE IF sigma > 50 THEN "Medium" ELSE "Low"

update_physical_oled(d, drawOk) ==
    IF d.oled_device
    THEN IF drawOk THEN "drawn" ELSE "draw_failed"
    ELSE "simulated"

\* Inputs the environment and the caller give.
Chan == {10, 20, 29, 30, 49, 50, 100, 101, 120, 130, 200, 201, 250, 255}
SampleVals == {1, 2, 3, 399, 400, 401}
SampleLists == UNION {[1 .. n -> SampleVals] : n \in 0 .. MaxSamples}
Sigmas == {0, 50, 51, 120, 121}
AmbientVals == {2234, 2235, 2245}
FrameSums == {768 * 251, 768 * 251 + 384, 768 * 252 + 384}

\* A call from the importing program: hwpc is "called" until the program
\* has taken the result (HwReturn).
HwCall(op, o, arg) ==
    /\ hwpc' = "called"
    /\ last' = [NoCall EXCEPT !.op = op, !.ret = o.ret, !.raised = o.raised,
                              !.io = o.io, !.arg = arg]
    /\ UNCHANGED <<gpio_handle, chip, hist, pc, elapsed, mainpc, dev>>

HwReturn ==
    /\ hwpc = "called"
    /\ hwpc' = "ready"
    /\ last' = NoCall
    /\ UNCHANGED <<gpio_handle, chip, hist, pc, elapsed, mainpc, dev>>

HwImport ==
    /\ hwpc = "start"
    /\ \E closeOk \in BOOLEAN, i2cOk \in BOOLEAN, mlxOk \in BOOLEAN,
          tcsOk \in BOOLEAN, oledOk \in BOOLEAN, gpioOk \in BOOLEAN :
          LET r == hw_import(dev, closeOk, i2cOk, mlxOk, tcsOk, oledOk, gpioOk)
          IN  /\ dev' = r.dev
              /\ hwpc' = r.pc
              /\ last' = [NoCall EXCEPT !.op = "import",
                                        !.raised = (r.pc = "import_error")]
    /\ UNCHANGED <<gpio_handle, chip, hist, pc, elapsed, mainpc>>

HwReadTemperature ==
    /\ hwpc = "ready"
    /\ \E outcome \in {"ok", "oserror", "other"}, amb \in AmbientVals,
             frame \in FrameSums :
             HwCall("read_temperature",
                    hw_read_temperature(dev, outcome, amb, frame),
                    <<outcome, amb, frame>>)

HwReadColor ==
    /\ hwpc = "ready"
    /\ \/ \E rgb \in Chan \X Chan \X Chan :
             HwCall("read_color", hw_read_color(dev, TRUE, rgb), rgb)
       \/ HwCall("read_color", hw_read_color(dev, FALSE, <<0, 0, 0>>), <<>>)

HwBuzzerBeep ==
    /\ hwpc = "ready"
    /\ \E ok \in BOOLEAN :
             HwCall("buzzer_beep", buzzer_beep(dev, ok), <<ok>>)

HwReadButton ==
    /\ hwpc = "ready"
    /\ \E ok \in BOOLEAN, is_pressed \in BOOLEAN :
             HwCall("read_button", read_button(dev, ok, is_pressed),
                    <<ok, is_pressed>>)

HwMeasureDistance ==
    /\ hwpc = "ready"
    /\ \/ \E readings \in SampleLists :
             HwCall("measure_distance", hw_measure_distance(dev, TRUE, readings),
                    readings)
       \/ HwCall("measure_distance", hw_measure_distance(dev, FALSE, <<>>), <<>>)

HwAnalyzeAbsorption ==
    /\ hwpc = "ready"
    /\ \E sigma \in Sigmas :
             HwCall("analyze_absorption",
                    Out(PyStr(analyze_absorption(sigma)), FALSE, FALSE),
                    <<sigma>>)

HwUpdateOled ==
    /\ hwpc = "ready"
    /\ \E drawOk \in BOOLEAN :
             HwCall("update_physical_oled", Out(PyNone, FALSE, dev.oled_device),
                    <<update_physical_oled(dev, drawOk)>>)

DevStart(f) ==
    [pin_factory |-> f, i2c_bus |-> FALSE, mlx_sensor |-> FALSE,
     tcs_sensor |-> FALSE, oled_device |-> FALSE,
     distance_sensor_obj |-> FALSE, buzzer_obj |-> FALSE,
     button_obj |-> FALSE]

Init ==
    /\ gpio_handle = None
    /\ chip = [open |-> {}, claims |-> {}, next |-> 0]
    /\ hist = [closes |-> [h \in Handles |-> 0], stale |-> {}]
    /\ pc = "idle"
    /\ elapsed = 0
    /\ last = NoCall
    /\ mainpc = "lib"
    /\ dev = DevStart("none")
    /\ hwpc = "start"

Next ==
    \/ InitGpio("lib", "lib")
    \/ CleanupGpio("lib", "lib")
    \/ MeasureDistance("lib", "lib")
    \/ EchoRisePoll
    \/ EchoFallPoll
    \/ WaitForButtonPress("lib", "lib")
    \/ ButtonPoll
    \/ Beep("lib", "lib")
    \/ ReadTemperature("lib", "lib")
    \/ ReadColor("lib", "lib")
    \/ OledMessage("lib", "lib")

Spec == Init /\ [][Next]_vars

\* The interpreter keeps executing the loop it is in: a poll that is enabled
\* is eventually taken.
LiveSpec ==
    Spec /\ WF_vars(EchoRisePoll) /\ WF_vars(EchoFallPoll) /\ WF_vars(ButtonPoll)

MainInit ==
    /\ gpio_handle = None
    /\ chip = [open |-> {}, claims |-> {}, next |-> 0]
    /\ hist = [closes |-> [h \in Handles |-> 0], stale |-> {}]
    /\ pc = "idle"
    /\ elapsed = 0
    /\ last = NoCall
    /\ mainpc = "import"
    /\ dev = DevStart("none")
    /\ hwpc = "start"

MainNext ==
    \/ InitGpio("import", "L264")
    \/ WaitForButtonPress("L264", "L265")
    \/ ButtonPoll
    \/ MeasureDistance("L265", "L268")
    \/ EchoRisePoll
    \/ EchoFallPoll
    \/ ReadTemperature("L268", "L271")
    \/ ReadColor("L271", "L274")
    \/ OledMessage("L274", "L281")
    \/ Beep("L281", "exit")
    \/ KeyboardInterrupt
    \/ AtExit

MainSpec == MainInit /\ [][MainNext]_vars

\* hw_layer.py imported by a program that calls its functions in any order.
\* Device.pin_factory may have been set by devices created before the import.
HwInit ==
    /\ gpio_handle = None
    /\ chip = [open |-> {}, claims |-> {}, next |-> 0]
    /\ hist = [closes |-> [h \in Handles |-> 0], stale |-> {}]
    /\ pc = "idle"
    /\ elapsed = 0
    /\ last = NoCall
    /\ mainpc = "hw_layer"
    /\ \E f \in {"none", "open"} : dev = DevStart(f)
    /\ hwpc = "start"

HwNext ==
    \/ HwImport
    \/ HwReadTemperature
    \/ HwReadColor
    \/ HwBuzzerBeep
    \/ HwReadButton
    \/ HwMeasureDistance
    \/ HwAnalyzeAbsorption
    \/ HwUpdateOled
    \/ HwReturn

HwSpec == HwInit /\ [][HwNext]_vars

(***************************************************************************)
(* The claims.                                                             *)
(***************************************************************************)

\* C1: when the first attempt of init_gpio fails and the retry open
\* succeeds, gpio_handle is an open handle on which TRIG and BUZZER are
\* claimed as outputs and ECHO and BUTTON as inputs.
C1_RecoveredInitClaimsPins ==
    (last.op = "init_gpio" /\ last.failed /\ last.retryOk) =>
        /\ gpio_handle \in chip.open
        /\ \A c \in PinPlan : <<gpio_handle, c[1], c[2]>> \in chip.claims

\* C2: cleanup_gpio never raises; called twice in succession from any state
\* the program reaches, or in the state before any init_gpio, it leaves
\* gpio_handle None and no chip handle open, and so does every cleanup_gpio
\* call the program has made.  cleanup_gpio_pins of hw_layer.py, when its
\* close succeeds, leaves the pin factory not open, and a second call
\* changes nothing.
C2_PinFactory ==
    \A f \in {"none", "open", "closed"} :
       LET once == cleanup_gpio_pins(f, TRUE)
       IN  once # "open" /\ cleanup_gpio_pins(once, TRUE) = once

C2_CleanupTwiceLeavesClosed ==
    LET once == cleanup_gpio(Cur)
        twice == cleanup_gpio(once)
    IN  /\ ~once.exc /\ ~twice.exc
        /\ twice.gpio_handle = None /\ twice.open = {}
        /\ twice.closes = once.closes
        /\ chip.next = 0 => (once.gpio_handle = None /\ once.open = {})
        /\ last.op = "cleanup_gpio" =>
              (~last.raised /\ gpio_handle = None /\ chip.open = {})
        /\ C2_PinFactory

\* C2 witness: a cleanup_gpio that directly follows a cleanup_gpio which had
\* closed an open handle.
C2_Witness ==
    /\ last.op = "cleanup_gpio" /\ last.prev = "cleanup_gpio"
    /\ ~last.hadHandle
    /\ \E h \in Handles : hist.closes[h] = 1

\* C3: an init_gpio whose first attempt fails runs cleanup_gpio once and
\* opens the chip once more (two gpiochip_open attempts in all, one when the
\* first attempt succeeds); it never raises, and when the retry fails too it
\* leaves gpio_handle None with no handle open.
C3_InitRetriesOnce ==
    last.op = "init_gpio" =>
        /\ ~last.raised
        /\ last.opens <= 2
        /\ ~last.failed => (last.opens = 1 /\ last.cleanups = 0)
        /\ last.failed => (last.opens = 2 /\ last.cleanups = 1)
        /\ (last.failed /\ ~last.retryOk) =>
              (gpio_handle = None /\ chip.open = {})

\* C3 witness: an init_gpio that began with a handle, failed and failed
\* again on the retry.
C3_Witness ==
    /\ last.op = "init_gpio" /\ last.failed /\ ~last.retryOk
    /\ last.hadHandle /\ last.opens = 2

\* C4: with gpio_handle None (and, in hw_layer.py, the device objects
\* None), measure_distance, wait_for_button_press and read_button return
\* their unavailable value, beep and the display render do nothing or fall
\* back, no GPIO read or write is issued and nothing is raised.
C4_HwLayerDegraded ==
    \A ok \in BOOLEAN, f \in {"none", "open", "closed"} :
       LET d == DevStart(f)
       IN  /\ \A rs \in SampleLists :
                 hw_measure_distance(d, ok, rs) = Out(PyPair(0, 0), FALSE, FALSE)
           /\ \A p \in BOOLEAN :
                 read_button(d, ok, p) = Out(PyBool(TRUE), FALSE, FALSE)
           /\ buzzer_beep(d, ok) = Out(PyNone, FALSE, FALSE)
           /\ update_physical_oled(d, ok) = "simulated"
           /\ oled_display_message(init_oled(FALSE, ok), ok) = "skipped"

C4_DegradedAdapters ==
    /\ (last.op \in {"measure_distance", "wait_for_button_press", "beep"}
          /\ ~last.hadHandle) =>
             /\ pc = "idle" /\ ~last.io /\ ~last.raised
             /\ last.ret = IF last.op = "wait_for_button_press"
                           THEN PyBool(FALSE) ELSE PyNone
    /\ last.op = "oled_display_message" => ~last.raised
    /\ C4_HwLayerDegraded

\* C4 witness: an adapter called after an init_gpio that left no handle.
C4_Witness ==
    /\ last.op = "measure_distance" /\ last.prev = "init_gpio"
    /\ ~last.hadHandle /\ gpio_handle = None /\ chip.open = {}

\* C5: every call of measure_distance and of wait_for_button_press returns:
\* a call that is inside one of its polling loops eventually leaves it.
C5_PollingCallsReturn == (pc # "idle") ~> (pc = "idle")

\* C6: no lgpio call (read, write, claim or close) is issued on a handle
\* that is not open, and gpio_handle, when not None, is an open handle.
C6_NoCallOnClosedHandle ==
    /\ hist.stale = {}
    /\ gpio_handle # None => gpio_handle \in chip.open

\* C7: in the program run (the import, the __main__ block, a
\* KeyboardInterrupt caught by it, the atexit hook) no handle is closed
\* twice, and when the process has ended every handle that was opened has
\* been closed exactly once and none is open.
C7_ReleasedExactlyOnce ==
    /\ \A h \in Handles : hist.closes[h] <= 1
    /\ mainpc = "terminated" =>
          /\ chip.open = {}
          /\ gpio_handle = None
          /\ \A h \in Handles : h < chip.next => hist.closes[h] = 1

\* C7 witness: the process ended through a caught KeyboardInterrupt that
\* closed the open handle, and the atexit hook found nothing to close.
C7_Witness ==
    /\ mainpc = "terminated"
    /\ last.op = "atexit" /\ last.prev = "KeyboardInterrupt"
    /\ ~last.hadHandle
    /\ chip.next > 0 /\ \A h \in Handles : h < chip.next => hist.closes[h] = 1

\* C8: the filtered measurement is the rounded mean and sample standard
\* deviation of exactly the samples strictly between 2 and 400 cm, and the
\* unavailable result (0, 0) when no sample is; the single measurement of
\* the lgpio variant is None exactly outside that envelope.
C8_Kept(rs) == SelectSeq(rs, LAMBDA r : r \in 3 .. 399)

C8_SingleMeasurement ==
    \A d \in 0 .. MaxElapsed :
       DistanceResult(d) = IF d \in 3 .. 399 THEN PyNum(d) ELSE PyNone

C8_FilterExcludesOutside ==
    /\ (hwpc = "called" /\ last.op = "measure_distance"
          /\ dev.distance_sensor_obj /\ ~last.raised) =>
             LET kept == C8_Kept(last.arg)
             IN  last.ret =
                    IF Len(kept) = 0 THEN PyPair(0, 0)
                    ELSE IF Len(kept) = 1 THEN PyPair(100 * kept[1], 0)
                    ELSE PyPair(MeanCenti(kept), StdevCenti(kept))
    /\ C8_SingleMeasurement

\* C8 witness: a measurement whose samples 2 and 400 were dropped and whose
\* result is the one surviving sample.
C8_Witness ==
    /\ hwpc = "called" /\ last.op = "measure_distance"
    /\ last.arg = <<2, 399, 400>>
    /\ last.ret = PyPair(39900, 0)

\* C9: get_color_name gives the label of the first matching rule in the
\* order White, Black, Red / Green / Blue (strictly dominant channel),
\* Yellow, Unknown; Yellow only when no channel is strictly dominant.
C9_Label(r, g, b) ==
    LET white == r > 200 /\ g > 200 /\ b > 200
        black == r < 30 /\ g < 30 /\ b < 30
        red == r > g /\ r > b
        green == g > r /\ g > b
        blue == b > r /\ b > g
        yellow == r > 100 /\ g > 100 /\ b < 50
    IN  CASE white -> "White"
          [] ~white /\ black -> "Black"
          [] ~white /\ ~black /\ red -> "Red"
          [] ~white /\ ~black /\ green -> "Green"
          [] ~white /\ ~black /\ blue -> "Blue"
          [] ~white /\ ~black /\ ~red /\ ~green /\ ~blue /\ yellow -> "Yellow"
          [] OTHER -> "Unknown"

C9_ColorPriority ==
    (hwpc = "called" /\ last.op = "read_color" /\ dev.tcs_sensor
       /\ last.arg # <<>>) =>
          LET r == last.arg[1]
              g == last.arg[2]
              b == last.arg[3]
          IN  /\ last.ret = PyStr(C9_Label(r, g, b))
              /\ last.ret.s = "Yellow" =>
                    ~(r > g /\ r > b) /\ ~(g > r /\ g > b) /\ ~(b > r /\ b > g)
              /\ last.arg = <<255, 255, 255>> => last.ret.s = "White"
              /\ last.arg = <<10, 10, 10>> => last.ret.s = "Black"
              /\ last.arg = <<250, 10, 10>> => last.ret.s = "Red"
              /\ last.arg = <<120, 130, 20>> => last.ret.s = "Green"

\* C9 witness: the colour (120, 130, 20), which satisfies the Yellow rule,
\* was read and labelled Green.
C9_Witness ==
    /\ hwpc = "called" /\ last.op = "read_color"
    /\ last.arg = <<120, 130, 20>> /\ last.ret.s = "Green"

\* C10: no sensor or digital-I/O adapter lets a failure of its device call
\* leave the function as an exception.
C10_AdaptersNeverRaise ==
    last.op \in {"measure_distance", "read_temperature", "read_color",
                 "read_button", "wait_for_button_press", "beep",
                 "buzzer_beep"} => ~last.raised

====
